---- MODULE Spec2Model ----
(***************************************************************************)
(* Model of weather_tool.client.WeatherTool: an in-process cache in front  *)
(* of one remote weather endpoint.  The state is the cache dictionary, the *)
(* wall clock read by datetime.now(), and a log of the last completed call *)
(* (what it was given, what it did, what the caller got back).             *)
(*                                                                         *)
(* Time is counted in minutes.  A Python dict is modelled as the sequence  *)
(* of its (key, value) items in insertion order.  An optional value is a   *)
(* sequence of length 0 (None / absent) or 1.  Temperatures are integers   *)
(* in hundredths of a degree Celsius.                                      *)
(***************************************************************************)
EXTENDS Integers, Sequences, FiniteSets, TLC

VARIABLES cache, now, call, lastFetched

vars == <<cache, now, call, lastFetched>>

(***************************************************************************)
(* Bounds and program constants                                            *)
(***************************************************************************)
\* last clock reading the model explores (minutes)
MaxTime == 15

\* self._cache_duration = timedelta(minutes=10)
CacheDuration == 10

\* clock advances are explored in half-window steps
HalfWindow == CacheDuration \div 2

\* time that may pass inside a call between building the record and storing it
Latencies == {0, HalfWindow}

None == <<>>

Some(x) == <<x>>

(***************************************************************************)
(* Text: a str is a sequence of one-character strings                      *)
(***************************************************************************)
LowerChar(ch) ==
    CASE ch = "S" -> "s"
      [] ch = "P" -> "p"
      [] ch = "R" -> "r"
      [] ch = "J" -> "j"
      [] OTHER -> ch

\* str.lower()
Lower(s) == [i \in 1..Len(s) |-> LowerChar(s[i])]

IsSpace(ch) == ch = " "

RECURSIVE LStrip(_)
LStrip(s) == IF s # <<>> /\ IsSpace(Head(s)) THEN LStrip(Tail(s)) ELSE s

RECURSIVE RStrip(_)
RStrip(s) ==
    IF s # <<>> /\ IsSpace(s[Len(s)]) THEN RStrip(SubSeq(s, 1, Len(s) - 1)) ELSE s

\* str.strip()
Strip(s) == RStrip(LStrip(s))

\* the city arguments the callers pass
Cities ==
    { <<"S", "P">>,
      <<" ", "s", "p", " ">>,
      <<"R", "j", " ">>,
      <<>>,
      <<" ", " ">> }

(***************************************************************************)
(* dict: the sequence of its items, in insertion order                     *)
(***************************************************************************)
DictKeys(d) == [i \in 1..Len(d) |-> d[i].key]

DictHas(d, k) == \E i \in 1..Len(d) : d[i].key = k

DictGet(d, k) == d[CHOOSE i \in 1..Len(d) : d[i].key = k].val

\* del d[k]
DictDel(d, k) == SelectSeq(d, LAMBDA it : it.key # k)

\* d[k] = v: an existing key keeps its position, a new key goes last
DictSet(d, k, v) ==
    IF DictHas(d, k)
    THEN [i \in 1..Len(d) |-> IF d[i].key = k THEN [key |-> k, val |-> v] ELSE d[i]]
    ELSE Append(d, [key |-> k, val |-> v])

(***************************************************************************)
(* Exceptions: the classes that can be raised on the lookup path           *)
(***************************************************************************)
Taxonomy == {"WeatherAPIError", "CityNotFoundError", "InvalidAPIKeyError", "NetworkError"}

RequestExceptions == {"RequestException", "HTTPError", "Timeout", "ConnectionError",
                      "ConnectTimeout", "RequestsJSONDecodeError"}

\* issubclass(cls, base)
IsSubclass(cls, base) ==
    \/ cls = base
    \/ base = "Exception"
    \/ base = "WeatherAPIError" /\ cls \in Taxonomy
    \/ base = "RequestException" /\ cls \in RequestExceptions
    \/ base \in {"ConnectionError", "Timeout"} /\ cls = "ConnectTimeout"
    \/ base = "ValueError" /\ cls \in {"ValidationError", "JSONDecodeError",
                                       "RequestsJSONDecodeError"}

\* an exception: its class, the texts of its message (an embedded "{e}"
\* appends the texts of e), and what the message quotes
Exc(cls, text, city, field, status) ==
    [exc |-> cls, text |-> text, city |-> city, field |-> field, status |-> status]

Ok(v) == [ok |-> TRUE, value |-> Some(v), err |-> None]

Raise(e) == [ok |-> FALSE, value |-> None, err |-> Some(e)]

\* raise cls(f"{prefix}{e}")
Wrap(cls, prefix, e) == Exc(cls, <<prefix>> \o e.text, e.city, e.field, e.status)

(***************************************************************************)
(* models.py                                                               *)
(***************************************************************************)
\* round(v, 1) on hundredths: to the nearest tenth, ties to even
Round1(h) ==
    LET q == h \div 10
        r == h % 10
    IN  IF r < 5 THEN q * 10
        ELSE IF r > 5 THEN (q + 1) * 10
        ELSE IF q % 2 = 0 THEN q * 10 ELSE (q + 1) * 10

\* @validator('temp', 'temp_min', 'temp_max'): not -50 <= v <= 60
TemperatureValid(h) == -5000 <= h /\ h <= 6000

\* variant: the bounds 0 and 100 are excluded (gt=0, lt=100)
HumidityValidStrict(u) == 0 < u /\ u < 100

\* humidity: int = Field(..., ge=0, le=100)
HumidityValid(u) == 0 <= u /\ u <= 100

\* the fields validate_temperature is registered for
ValidatedTemperatures == {"temp", "temp_min", "temp_max"}

\* WeatherMain(temp=..., temp_min=..., temp_max=..., humidity=..., feels_like=...)
WeatherMain(temp, temp_min, temp_max, humidity, feels_like) ==
    LET given == [temp |-> temp, temp_min |-> temp_min, temp_max |-> temp_max,
                  feels_like |-> feels_like]
        bad == {f \in ValidatedTemperatures : ~TemperatureValid(given[f])}
        out(f) == IF f \in ValidatedTemperatures THEN Round1(given[f]) ELSE given[f]
    IN  IF bad # {} \/ ~HumidityValid(humidity)
        THEN Raise(Exc("ValidationError", <<"validation error for WeatherMain">>,
                       None, "", 0))
        ELSE Ok([temp |-> out("temp"), temp_min |-> out("temp_min"),
                 temp_max |-> out("temp_max"), humidity |-> humidity,
                 feels_like |-> out("feels_like")])

\* variant: the default of timestamp is a value fixed when the class is defined
WeatherDataFixedStamp(city_name, country, main, weather, t) ==
    [city_name |-> city_name, country |-> country, main |-> main,
     weather |-> weather, timestamp |-> 0]

\* WeatherData(city_name=..., country=..., main=..., weather=...), built at time t
WeatherData(city_name, country, main, weather, t) ==
    [city_name |-> city_name, country |-> country, main |-> main,
     weather |-> weather, timestamp |-> t]

\* datetime.isoformat() and the str() of an f-string field: the text of a value
IsoFormat(t) == [isoformat |-> t]

Str(v) == [str |-> v]

\* variant: the conditions are the main of the first descriptor, not its description
ToAgentFormatMain(record) ==
    [location |-> [city |-> record.city_name, country |-> record.country],
     temperature |-> [current |-> record.main.temp, min |-> record.main.temp_min,
                      max |-> record.main.temp_max, feels_like |-> record.main.feels_like],
     conditions |-> IF record.weather # <<>> THEN record.weather[1].main ELSE "unknown",
     humidity |-> record.main.humidity,
     timestamp |-> IsoFormat(record.timestamp)]

\* WeatherData.to_agent_format
ToAgentFormat(record) ==
    [location |-> [city |-> record.city_name, country |-> record.country],
     temperature |-> [current |-> record.main.temp, min |-> record.main.temp_min,
                      max |-> record.main.temp_max, feels_like |-> record.main.feels_like],
     conditions |-> IF record.weather # <<>> THEN record.weather[1].description ELSE "unknown",
     humidity |-> record.main.humidity,
     timestamp |-> IsoFormat(record.timestamp)]

\* WeatherData.to_display_format: the pieces of the text, in order
ToDisplayFormat(record) ==
    << "Clima em ", Str(record.city_name),
       "Temperatura: ", Str(record.main.temp), "sensacao: ", Str(record.main.feels_like),
       "Condicoes: ", Str(IF record.weather # <<>> THEN record.weather[1].description
                          ELSE "N/A"),
       "Umidade: ", Str(record.main.humidity) >>

(***************************************************************************)
(* Response bodies: the result of response.json(), or text that is not JSON*)
(***************************************************************************)
MainBlock(temp, temp_min, temp_max, humidity, feels_like) ==
    [temp |-> temp, temp_min |-> temp_min, temp_max |-> temp_max,
     humidity |-> humidity, feels_like |-> feels_like]

Descriptor(main, description, icon) ==
    [main |-> main, description |-> description, icon |-> icon]

Body(name, main, weather, sys) ==
    [json |-> TRUE, isdict |-> TRUE, name |-> name, main |-> main,
     weather |-> weather, sys |-> sys]

ClearSky == Descriptor(Some("Clear"), Some("ceu limpo"), Some("01d"))

Clouds == Descriptor(Some("Clouds"), Some("nublado"), Some("04d"))

SysBR == Some([country |-> Some("BR")])

MildMain == MainBlock(Some(2534), Some(2210), Some(2875), Some(60), Some(2600))

CoolMain == MainBlock(Some(1800), Some(1500), Some(2000), Some(100), Some(1750))

BodyMild == Body(Some("Sao Paulo"), Some(MildMain), Some(<<ClearSky, Clouds>>), SysBR)

BodyCool == Body(Some("Sao Paulo"), Some(CoolMain), Some(<<Clouds>>), SysBR)

BodyNoName == Body(None, Some(MildMain), Some(<<ClearSky>>), SysBR)

BodyNoMain == Body(Some("Sao Paulo"), None, Some(<<ClearSky>>), SysBR)

BodyNoTemp ==
    Body(Some("Sao Paulo"), Some([MildMain EXCEPT !.temp = None]), Some(<<ClearSky>>), SysBR)

BodyNoHumidity ==
    Body(Some("Sao Paulo"), Some([MildMain EXCEPT !.humidity = None]), Some(<<ClearSky>>), SysBR)

BodyNoIcon ==
    Body(Some("Sao Paulo"), Some(MildMain), Some(<<ClearSky, [Clouds EXCEPT !.icon = None]>>), SysBR)

BodyNoWeather == Body(Some("Sao Paulo"), Some(MildMain), None, SysBR)

BodyNoSys == Body(Some("Sao Paulo"), Some(MildMain), Some(<<>>), None)

BodyHot ==
    Body(Some("Sao Paulo"), Some([MildMain EXCEPT !.temp = Some(7000)]), Some(<<ClearSky>>), SysBR)

\* out of range and without a city name
BodyHotNoName == [BodyHot EXCEPT !.name = None]

BodyFeelsHot ==
    Body(Some("Sao Paulo"), Some([MildMain EXCEPT !.feels_like = Some(7000)]), Some(<<ClearSky>>), SysBR)

BodyHumid ==
    Body(Some("Sao Paulo"), Some([MildMain EXCEPT !.humidity = Some(101)]), Some(<<ClearSky>>), SysBR)

\* a JSON document that is not an object
BodyList == [BodyMild EXCEPT !.isdict = FALSE]

\* text that response.json() cannot decode
BodyNotJson == [BodyMild EXCEPT !.json = FALSE]

Bodies ==
    { BodyMild, BodyCool, BodyNoName, BodyNoMain, BodyNoTemp, BodyNoHumidity, BodyNoIcon,
      BodyNoWeather, BodyNoSys, BodyHot, BodyHotNoName, BodyFeelsHot, BodyHumid, BodyList,
      BodyNotJson }

(***************************************************************************)
(* client.py: _parse_response                                              *)
(***************************************************************************)
KeyError(field) == Raise(Exc("KeyError", <<>>, None, field, 0))

MainKeys == <<"temp", "temp_min", "temp_max", "humidity", "feels_like">>

DescriptorKeys == <<"main", "description", "icon">>

\* the keys of ks that mapping m lacks, in the order the code subscripts them
MissingKeys(m, ks) == SelectSeq(ks, LAMBDA k : m[k] = None)

\* variant: the descriptors are passed on as the dicts the body carries
WeatherListRaw(ws) ==
    IF \E i \in 1..Len(ws) : MissingKeys(ws[i], DescriptorKeys) # <<>>
    THEN KeyError(Head(MissingKeys(ws[CHOOSE i \in 1..Len(ws) :
                                          MissingKeys(ws[i], DescriptorKeys) # <<>>],
                                   DescriptorKeys)))
    ELSE Ok(ws)

\* [WeatherDescription(main=w["main"], ...) for w in ws]: the list, or the first KeyError
RECURSIVE WeatherList(_)
WeatherList(ws) ==
    IF ws = <<>> THEN Ok(<<>>)
    ELSE LET w == Head(ws)
             miss == MissingKeys(w, DescriptorKeys)
             rest == WeatherList(Tail(ws))
         IN  IF miss # <<>> THEN KeyError(Head(miss))
             ELSE IF ~rest.ok THEN rest
             ELSE Ok(<<[main |-> w.main[1], description |-> w.description[1],
                        icon |-> w.icon[1]]>> \o rest.value[1])

\* variant: the descriptor list and the sys block are read with data["weather"]
\* and data["sys"], as the required blocks are
ParseTrySubscripted(data, t) ==
    IF ~data.isdict
    THEN Raise(Exc("AttributeError", <<"object has no attribute 'get'">>, None, "", 0))
    ELSE IF data.main = None THEN KeyError("main")
    ELSE LET m == data.main[1]
             miss == MissingKeys(m, MainKeys)
         IN  IF miss # <<>> THEN KeyError(Head(miss))
             ELSE LET main == WeatherMain(m.temp[1], m.temp_min[1], m.temp_max[1],
                                          m.humidity[1], m.feels_like[1])
                      weather_list == IF data.weather = None THEN KeyError("weather")
                                      ELSE WeatherList(data.weather[1])
                  IN  IF ~main.ok THEN main
                      ELSE IF ~weather_list.ok THEN weather_list
                      ELSE IF data.name = None THEN KeyError("name")
                      ELSE IF data.sys = None THEN KeyError("sys")
                      ELSE Ok(WeatherData(data.name[1], data.sys[1].country, main.value[1],
                                          weather_list.value[1], t))

\* the try block of _parse_response, run at time t
ParseTry(data, t) ==
    IF ~data.isdict
    THEN Raise(Exc("AttributeError", <<"object has no attribute 'get'">>, None, "", 0))
    ELSE IF data.main = None THEN KeyError("main")
    ELSE LET m == data.main[1]
             miss == MissingKeys(m, MainKeys)
         IN  IF miss # <<>> THEN KeyError(Head(miss))
             ELSE LET main == WeatherMain(m.temp[1], m.temp_min[1], m.temp_max[1],
                                          m.humidity[1], m.feels_like[1])
                      weather_list == WeatherList(IF data.weather = None THEN <<>>
                                                  ELSE data.weather[1])
                      country == IF data.sys = None THEN None ELSE data.sys[1].country
                  IN  IF ~main.ok THEN main
                      ELSE IF ~weather_list.ok THEN weather_list
                      ELSE IF data.name = None THEN KeyError("name")
                      ELSE Ok(WeatherData(data.name[1], country, main.value[1],
                                          weather_list.value[1], t))

\* variant: one except clause for every exception, with a fixed message
ParseExceptFixed(e) ==
    Raise(Exc("WeatherAPIError", <<"Erro ao processar dados">>, None, "", 0))

\* the except clauses of _parse_response
ParseExcept(e) ==
    IF IsSubclass(e.exc, "KeyError")
    THEN Raise(Exc("WeatherAPIError", <<"Dados incompletos da API: campo nao encontrado">>,
                   None, e.field, 0))
    ELSE Raise(Wrap("WeatherAPIError", "Erro ao processar dados: ", e))

ParseResponse(data, t) ==
    LET r == ParseTry(data, t)
    IN  IF r.ok THEN r ELSE ParseExcept(r.err[1])

(***************************************************************************)
(* client.py: _fetch_from_api                                              *)
(***************************************************************************)
\* what requests.get(...) meets: a timeout, a connection failure, or a response
TimedOut == [kind |-> "timeout", status |-> 0, body |-> BodyNotJson, jsonexc |-> ""]

Refused == [kind |-> "connection", status |-> 0, body |-> BodyNotJson, jsonexc |-> ""]

\* the connection was not established within the timeout
ConnectTimedOut == [kind |-> "connect_timeout", status |-> 0, body |-> BodyNotJson, jsonexc |-> ""]

Response(status, body, jsonexc) ==
    [kind |-> "response", status |-> status, body |-> body, jsonexc |-> jsonexc]

\* the class response.json() raises: requests.exceptions.JSONDecodeError (a
\* RequestException) in requests >= 2.27, a plain ValueError subclass before
JsonExcs == {"RequestsJSONDecodeError", "JSONDecodeError"}

ErrorStatuses == {400, 401, 404, 429, 500, 503}

AllOutcomes ==
    {TimedOut, ConnectTimedOut, Refused}
    \cup {Response(s, BodyNotJson, "") : s \in ErrorStatuses}
    \cup {Response(200, b, "") : b \in Bodies \ {BodyNotJson}}
    \cup {Response(s, BodyNotJson, x) : s \in {200, 304}, x \in JsonExcs}

\* response.raise_for_status() raises for 400 <= status < 600
RaisesForStatus(status) == 400 <= status /\ status < 600

\* the try block of _fetch_from_api: one requests.get, then parse at time t
FetchTry(outcome, t) ==
    IF outcome.kind = "timeout"
    THEN Raise(Exc("Timeout", <<"Read timed out">>, None, "", 0))
    ELSE IF outcome.kind = "connect_timeout"
    THEN Raise(Exc("ConnectTimeout", <<"Connection timed out">>, None, "", 0))
    ELSE IF outcome.kind = "connection"
    THEN Raise(Exc("ConnectionError", <<"Failed to establish a new connection">>, None, "", 0))
    ELSE IF RaisesForStatus(outcome.status)
    THEN Raise(Exc("HTTPError", <<"Error for url">>, None, "", outcome.status))
    ELSE IF ~outcome.body.json
    THEN Raise(Exc(outcome.jsonexc, <<"Expecting value">>, None, "", 0))
    ELSE ParseResponse(outcome.body, t)

\* variant: the 404 branch is missing, a 404 is reported like any other status
OnHTTPErrorGeneric(e, city) ==
    IF e.status = 401
    THEN Raise(Exc("InvalidAPIKeyError", <<"API key invalida">>, None, "", 0))
    ELSE Raise(Wrap("WeatherAPIError", "Erro na API: ", e))

\* variant: the 401 branch is missing, a 401 is reported like any other status
OnHTTPErrorNoKey(e, city) ==
    IF e.status = 404
    THEN Raise(Exc("CityNotFoundError", <<"Cidade nao encontrada">>, city, "", 0))
    ELSE Raise(Wrap("WeatherAPIError", "Erro na API: ", e))

\* except HTTPError as e
OnHTTPError(e, city) ==
    IF e.status = 404
    THEN Raise(Exc("CityNotFoundError", <<"Cidade nao encontrada">>, city, "", 0))
    ELSE IF e.status = 401
    THEN Raise(Exc("InvalidAPIKeyError", <<"API key invalida">>, None, "", 0))
    ELSE Raise(Wrap("WeatherAPIError", "Erro na API: ", e))

\* variant: no final `except Exception` clause
FetchExceptNarrow(e, city) ==
    IF IsSubclass(e.exc, "HTTPError") THEN OnHTTPError(e, city)
    ELSE IF IsSubclass(e.exc, "Timeout")
    THEN Raise(Exc("NetworkError", <<"Timeout ao buscar">>, city, "", 0))
    ELSE IF IsSubclass(e.exc, "RequestException")
    THEN Raise(Wrap("NetworkError", "Erro de conexao: ", e))
    ELSE Raise(e)

\* variant: the RequestException clause comes before the Timeout clause
FetchExceptGeneralFirst(e, city) ==
    IF IsSubclass(e.exc, "HTTPError") THEN OnHTTPError(e, city)
    ELSE IF IsSubclass(e.exc, "RequestException")
    THEN Raise(Wrap("NetworkError", "Erro de conexao: ", e))
    ELSE IF IsSubclass(e.exc, "Timeout")
    THEN Raise(Exc("NetworkError", <<"Timeout ao buscar">>, city, "", 0))
    ELSE IF IsSubclass(e.exc, "Exception")
    THEN Raise(Wrap("WeatherAPIError", "Erro inesperado: ", e))
    ELSE Raise(e)

\* the except clauses of _fetch_from_api, in order
FetchExcept(e, city) ==
    IF IsSubclass(e.exc, "HTTPError") THEN OnHTTPError(e, city)
    ELSE IF IsSubclass(e.exc, "Timeout")
    THEN Raise(Exc("NetworkError", <<"Timeout ao buscar">>, city, "", 0))
    ELSE IF IsSubclass(e.exc, "RequestException")
    THEN Raise(Wrap("NetworkError", "Erro de conexao: ", e))
    ELSE IF IsSubclass(e.exc, "Exception")
    THEN Raise(Wrap("WeatherAPIError", "Erro inesperado: ", e))
    ELSE Raise(e)

FetchFromApi(city, outcome, t) ==
    LET r == FetchTry(outcome, t)
    IN  IF r.ok THEN r ELSE FetchExcept(r.err[1], city)

(***************************************************************************)
(* client.py: the cache                                                    *)
(***************************************************************************)
\* variant: the key is lowercased but not trimmed
CityKeyUntrimmed(city) == Lower(city)

\* variant: the key is trimmed but not lowercased
CityKeyCased(city) == Strip(city)

\* city_key = city.lower().strip()
CityKey(city) == Strip(Lower(city))

\* not city or not city.strip()
IsBlank(city) == city = <<>> \/ Strip(city) = <<>>

\* variant: the comparison is reversed
IsCacheValidReversed(cache_entry, t) == t - cache_entry.timestamp > CacheDuration

\* variant: an entry aged exactly CacheDuration still counts as valid
IsCacheValidInclusive(cache_entry, t) == t - cache_entry.timestamp <= CacheDuration

\* variant: entries never expire
IsCacheValidAlways(cache_entry, t) == TRUE

\* _is_cache_valid, with datetime.now() = t
IsCacheValid(cache_entry, t) == t - cache_entry.timestamp < CacheDuration

CacheEntry(data, t) == [data |-> data, timestamp |-> t]

\* the log of a completed call: its arguments, the path it took, the number of
\* requests.get calls it made, the transport outcome it met, what _fetch_from_api
\* gave back, and what the caller received; for clear_cache, the count it logged
\* and the value it returned
CallLog(op, city, outcome, path, evicted, requests, fetched, result, info) ==
    [op |-> op, city |-> city, outcome |-> outcome, path |-> path, evicted |-> evicted,
     requests |-> requests, fetched |-> fetched, result |-> result, info |-> info,
     removed |-> 0, returned |-> None]

NoCall == CallLog("none", <<>>, None, "none", FALSE, 0, None, None, None)

\* get_weather lines 33-35
RejectBlank(city) ==
    Raise(Exc("WeatherAPIError", <<"Nome da cidade nao pode estar vazio">>, None, "", 0))

\* variant: a lookup that finds its entry stale drops every stale entry
CheckCacheSweep(c, city_key, t) ==
    IF DictHas(c, city_key)
    THEN IF IsCacheValid(DictGet(c, city_key), t)
         THEN [hit |-> TRUE, cache |-> c, evicted |-> FALSE]
         ELSE [hit |-> FALSE, cache |-> SelectSeq(c, LAMBDA it : IsCacheValid(it.val, t)),
               evicted |-> TRUE]
    ELSE [hit |-> FALSE, cache |-> c, evicted |-> FALSE]

\* variant: a stale entry is left in the mapping until the store replaces it
CheckCacheKeeping(c, city_key, t) ==
    IF DictHas(c, city_key)
    THEN [hit |-> IsCacheValid(DictGet(c, city_key), t), cache |-> c,
          evicted |-> ~IsCacheValid(DictGet(c, city_key), t)]
    ELSE [hit |-> FALSE, cache |-> c, evicted |-> FALSE]

\* get_weather lines 40-49: the entry check at time t; a stale entry is deleted
CheckCache(c, city_key, t) ==
    IF DictHas(c, city_key)
    THEN IF IsCacheValid(DictGet(c, city_key), t)
         THEN [hit |-> TRUE, cache |-> c, evicted |-> FALSE]
         ELSE [hit |-> FALSE, cache |-> DictDel(c, city_key), evicted |-> TRUE]
    ELSE [hit |-> FALSE, cache |-> c, evicted |-> FALSE]

\* variant: the record is stamped again when it is stored
StoreFetchedRestamped(c, city_key, fetched, t) ==
    IF fetched.ok
    THEN DictSet(c, city_key, CacheEntry([fetched.value[1] EXCEPT !.timestamp = t], t))
    ELSE c

\* get_weather lines 55-66: what the mapping is after _fetch_from_api gave `fetched`
\* and the store, if reached, ran at time t
StoreFetched(c, city_key, fetched, t) ==
    IF fetched.ok THEN DictSet(c, city_key, CacheEntry(fetched.value[1], t)) ELSE c

\* variant: get_weather catches the failure and raises its own error
PropagateWrapped(fetched) ==
    IF fetched.ok THEN fetched
    ELSE Raise(Wrap("WeatherAPIError", "Erro ao buscar clima: ", fetched.err[1]))

\* get_weather line 55 and line 66: the exception of _fetch_from_api is not caught
Propagate(fetched) == fetched

\* variant: a failed request is tried once more
AttemptsRetry(fetched) == IF fetched.ok THEN 1 ELSE 2

\* requests.get calls made by one _fetch_from_api call that met `fetched`
Attempts(fetched) == 1

\* variant: a hit stamps the entry again with the time of the hit
GetWeatherCallRefreshing(c, t, city, outcome, d) ==
    IF IsBlank(city)
    THEN [cache |-> c, now |-> t,
          call |-> CallLog("get_weather", city, None, "invalid", FALSE, 0, None,
                           Some(RejectBlank(city)), None)]
    ELSE LET city_key == CityKey(city)
             chk == CheckCache(c, city_key, t)
             fetched == FetchFromApi(city, outcome, t)
         IN  IF chk.hit
             THEN [cache |-> DictSet(c, city_key, CacheEntry(DictGet(c, city_key).data, t)),
                   now |-> t,
                   call |-> CallLog("get_weather", city, None, "hit", FALSE, 0, None,
                                    Some(Ok(DictGet(c, city_key).data)), None)]
             ELSE [cache |-> StoreFetched(chk.cache, city_key, fetched, t + d),
                   now |-> IF fetched.ok THEN t + d ELSE t,
                   call |-> CallLog("get_weather", city, Some(outcome), "miss", chk.evicted,
                                    Attempts(fetched), Some(fetched),
                                    Some(Propagate(fetched)), None)]

\* one get_weather(city) call that starts at time t with mapping c, meets
\* `outcome` on the wire if it sends a request, and stores d later
GetWeatherCall(c, t, city, outcome, d) ==
    IF IsBlank(city)
    THEN [cache |-> c, now |-> t,
          call |-> CallLog("get_weather", city, None, "invalid", FALSE, 0, None,
                           Some(RejectBlank(city)), None)]
    ELSE LET city_key == CityKey(city)
             chk == CheckCache(c, city_key, t)
             fetched == FetchFromApi(city, outcome, t)
         IN  IF chk.hit
             THEN [cache |-> c, now |-> t,
                   call |-> CallLog("get_weather", city, None, "hit", FALSE, 0, None,
                                    Some(Ok(DictGet(c, city_key).data)), None)]
             ELSE [cache |-> StoreFetched(chk.cache, city_key, fetched, t + d),
                   now |-> IF fetched.ok THEN t + d ELSE t,
                   call |-> CallLog("get_weather", city, Some(outcome), "miss", chk.evicted,
                                    Attempts(fetched), Some(fetched),
                                    Some(Propagate(fetched)), None)]

\* variant: the expired entries are counted on their own, as those older than
\* the cache duration
CacheInfoCountedApart(c, t) ==
    [total_cities |-> Len(c),
     valid_entries |-> Cardinality({i \in 1..Len(c) : IsCacheValid(c[i].val, t)}),
     expired_entries |-> Cardinality({i \in 1..Len(c) : t - c[i].val.timestamp > CacheDuration}),
     cache_duration_minutes |-> CacheDuration,
     cached_cities |-> DictKeys(c)]

\* get_cache_info at time t
CacheInfo(c, t) ==
    LET valid == Cardinality({i \in 1..Len(c) : IsCacheValid(c[i].val, t)})
    IN  [total_cities |-> Len(c),
         valid_entries |-> valid,
         expired_entries |-> Len(c) - valid,
         cache_duration_minutes |-> CacheDuration,
         cached_cities |-> DictKeys(c)]

(***************************************************************************)
(* The state machine                                                       *)
(***************************************************************************)
\* the outcomes explored together with the passage of time
Outcomes ==
    { TimedOut, Refused,
      Response(404, BodyNotJson, ""), Response(401, BodyNotJson, ""),
      Response(500, BodyNotJson, ""),
      Response(200, BodyMild, ""), Response(200, BodyNoName, "") }

\* history: for each city argument, the record that the last call which fetched
\* for it returned and the time it returned; forgotten by clear_cache
NothingFetched == [c \in Cities |-> None]

NoteFetched(lf, log, t) ==
    IF log.path = "miss" /\ log.result[1].ok
    THEN [lf EXCEPT ![log.city] = Some([data |-> log.result[1].value[1], at |-> t])]
    ELSE lf

Init ==
    /\ cache = <<>>
    /\ now = 0
    /\ call = NoCall
    /\ lastFetched = NothingFetched

\* the transport outcome is drawn only by a call that sends a request, the
\* store delay only by a call that reaches the store
SendsRequest(city) == ~IsBlank(city) /\ ~CheckCache(cache, CityKey(city), now).hit

GetWeatherIn(cities, outs, lats) ==
    \E city \in cities :
        \E outcome \in IF SendsRequest(city) THEN outs ELSE {TimedOut} :
            \E d \in IF SendsRequest(city) /\ FetchFromApi(city, outcome, now).ok
                     THEN lats ELSE {0} :
                \E r \in {GetWeatherCall(cache, now, city, outcome, d)} :
                    /\ r.now <= MaxTime
                    /\ cache' = r.cache
                    /\ now' = r.now
                    /\ call' = r.call
                    /\ lastFetched' = NoteFetched(lastFetched, r.call, r.now)

GetWeather == GetWeatherIn(Cities, Outcomes, Latencies)

\* variant: the statistics call drops the entries it found expired
GetCacheInfoPurging ==
    /\ call' = CallLog("get_cache_info", <<>>, None, "none", FALSE, 0, None, None,
                       Some(CacheInfo(cache, now)))
    /\ cache' = SelectSeq(cache, LAMBDA it : IsCacheValid(it.val, now))
    /\ UNCHANGED <<now, lastFetched>>

GetCacheInfo ==
    /\ call' = CallLog("get_cache_info", <<>>, None, "none", FALSE, 0, None, None,
                       Some(CacheInfo(cache, now)))
    /\ UNCHANGED <<cache, now, lastFetched>>

\* clear_cache has no return statement (-> None): the count goes to the log only
ClearReturn(count) == None

ClearLog(count) ==
    [CallLog("clear_cache", <<>>, None, "none", FALSE, 0, None, None, None)
        EXCEPT !.removed = count, !.returned = ClearReturn(count)]

\* variant: only the expired entries are removed
ClearCacheExpiredOnly ==
    /\ cache' = SelectSeq(cache, LAMBDA it : IsCacheValid(it.val, now))
    /\ call' = ClearLog(Len(cache))
    /\ lastFetched' = NothingFetched
    /\ UNCHANGED now

\* variant: the count is taken and logged, the mapping is left as it is
ClearCacheLogOnly ==
    /\ call' = ClearLog(Len(cache))
    /\ lastFetched' = NothingFetched
    /\ UNCHANGED <<cache, now>>

ClearCache ==
    /\ cache' = <<>>
    /\ call' = ClearLog(Len(cache))
    /\ lastFetched' = NothingFetched
    /\ UNCHANGED now

\* time passes between calls
Tick ==
    /\ now + HalfWindow <= MaxTime
    /\ now' = now + HalfWindow
    /\ UNCHANGED <<cache, call, lastFetched>>

Next == GetWeather \/ GetCacheInfo \/ ClearCache \/ Tick

Spec == Init /\ [][Next]_vars

(***************************************************************************)
(* The same machine over one city key and every transport outcome          *)
(***************************************************************************)
FetchCities == { <<"S", "P">>, <<" ", "s", "p", " ">>, <<>> }

GetWeatherAny == GetWeatherIn(FetchCities, AllOutcomes, {0})

\* a whole freshness window passes between calls
WindowPasses ==
    /\ now + CacheDuration <= MaxTime
    /\ now' = now + CacheDuration
    /\ UNCHANGED <<cache, call, lastFetched>>

NextFetch == GetWeatherAny \/ WindowPasses

SpecFetch == Init /\ [][NextFetch]_vars

(***************************************************************************)
(* WeatherMain on its own: the constructor applied to given field values,  *)
(* directly and through a response that carries them                       *)
(***************************************************************************)
\* temperatures in hundredths of a degree: around both limits, and inside
TempSamples == {-5001, -5000, 2534, 5990, 6000, 6001, 7000}

HumiditySamples == -1..101

Args(temp, temp_min, temp_max, humidity, feels_like) ==
    [temp |-> temp, temp_min |-> temp_min, temp_max |-> temp_max,
     humidity |-> humidity, feels_like |-> feels_like]

\* the field values tried: every temperature sample in each field in turn, and
\* every humidity sample
MainInputs ==
    {Args(t, 2210, 2875, 60, 2600) : t \in TempSamples}
    \cup {Args(2534, t, 2875, 60, 2600) : t \in TempSamples}
    \cup {Args(2534, 2210, t, 60, 2600) : t \in TempSamples}
    \cup {Args(2534, 2210, 2875, 60, t) : t \in TempSamples}
    \cup {Args(2534, 2210, 2875, u, 2600) : u \in HumiditySamples}

\* the response body that carries the field values
BodyOf(a) ==
    Body(Some("Sao Paulo"),
         Some(MainBlock(Some(a.temp), Some(a.temp_min), Some(a.temp_max),
                        Some(a.humidity), Some(a.feels_like))),
         Some(<<ClearSky>>), SysBR)

InitMain ==
    /\ cache = <<>>
    /\ now = 0
    /\ lastFetched = NothingFetched
    /\ \E a \in MainInputs : call = [NoCall EXCEPT !.info = Some(a)]

\* WeatherMain(**a)
Construct ==
    /\ call.op = "none"
    /\ \E a \in {call.info[1]} :
         call' = [call EXCEPT !.op = "WeatherMain",
                              !.result = Some(WeatherMain(a.temp, a.temp_min, a.temp_max,
                                                          a.humidity, a.feels_like))]
    /\ UNCHANGED <<cache, now, lastFetched>>

\* get_weather("SP") answered with the body that carries the field values
FetchMain ==
    /\ call.op = "none"
    /\ \E r \in {GetWeatherCall(cache, now, <<"S", "P">>,
                                 Response(200, BodyOf(call.info[1]), ""), 0)} :
         /\ cache' = r.cache
         /\ now' = r.now
         /\ call' = [r.call EXCEPT !.info = call.info]
         /\ lastFetched' = NoteFetched(lastFetched, r.call, r.now)

NextMain == Construct \/ FetchMain

SpecMain == InitMain /\ [][NextMain]_vars

(***************************************************************************)
(* _parse_response on its own: one decoded body, parsed again and again as *)
(* time passes and the cache fills and empties                             *)
(***************************************************************************)
\* what response.json() can hand to _parse_response
ParseBodies == Bodies \ {BodyNotJson}

\* the log of a _parse_response call at time t: the body, the result of the
\* parse before it (if any), its own result
ParseLog(body, before, result, t) ==
    CallLog("_parse_response", <<>>, Some(Response(200, body, "")), "none", FALSE, 0,
            before, Some(result), Some([at |-> t]))

InitParse ==
    /\ cache = <<>>
    /\ now = 0
    /\ lastFetched = NothingFetched
    /\ \E body \in ParseBodies :
         call = [NoCall EXCEPT !.outcome = Some(Response(200, body, ""))]

\* self._parse_response(data), with data the body drawn at the start
Parse ==
    /\ call' = ParseLog(call.outcome[1].body, call.result,
                        ParseResponse(call.outcome[1].body, now), now)
    /\ UNCHANGED <<cache, now, lastFetched>>

\* the places of a decoded body where a key the parser does not know can be added
ExtraPlaces(body) ==
    IF ~body.isdict THEN {}
    ELSE {"top"}
         \cup (IF body.main # None THEN {"main"} ELSE {})
         \cup (IF body.sys # None THEN {"sys"} ELSE {})
         \cup (IF body.weather # None /\ body.weather[1] # <<>> THEN {"descriptor"} ELSE {})

\* the body with one more key at the given place
WithExtra(body, place) ==
    IF place = "top" THEN body @@ [cod |-> Some(200)]
    ELSE IF place = "main"
    THEN [body EXCEPT !.main = Some(body.main[1] @@ [pressure |-> Some(1013)])]
    ELSE IF place = "sys"
    THEN [body EXCEPT !.sys = Some(body.sys[1] @@ [sunrise |-> Some(1700000000)])]
    ELSE [body EXCEPT !.weather =
            Some([i \in 1..Len(body.weather[1]) |-> body.weather[1][i] @@ [id |-> Some(800)]])]

\* self._parse_response(data), with data the body drawn at the start and one
\* more key in it; the log notes the place of the key
ParseExtended ==
    \E place \in ExtraPlaces(call.outcome[1].body) :
        /\ call' = [ParseLog(call.outcome[1].body, call.result,
                             ParseResponse(WithExtra(call.outcome[1].body, place), now), now)
                        EXCEPT !.path = place]
        /\ UNCHANGED <<cache, now, lastFetched>>

\* between two parses: get_weather("SP") answered with a well-formed body, on
\* the miss path or the hit path
FillCache ==
    \E r \in {GetWeatherCall(cache, now, <<"S", "P">>, Response(200, BodyCool, ""), 0)} :
        /\ cache' = r.cache
        /\ now' = r.now
        /\ lastFetched' = NoteFetched(lastFetched, r.call, r.now)
        /\ UNCHANGED call

\* between two parses: clear_cache()
EmptyCache ==
    /\ cache' = <<>>
    /\ lastFetched' = NothingFetched
    /\ UNCHANGED <<call, now>>

NextParse == Parse \/ ParseExtended \/ FillCache \/ EmptyCache \/ Tick

SpecParse == InitParse /\ [][NextParse]_vars

(***************************************************************************)
(* The adapters and the agent interface over one city key                  *)
(***************************************************************************)
\* the try block of the agent-facing get_weather, given what
\* tool.get_weather_for_agent(city) gave back
AgentTry(got) ==
    IF ~got.ok THEN got
    ELSE LET data == got.value[1]
         IN  IF "current_weather" \notin DOMAIN data THEN KeyError("current_weather")
             ELSE Ok([success |-> TRUE,
                      city |-> data.location.city,
                      country |-> data.location.country,
                      temperature |-> data.temperature.current,
                      feels_like |-> data.temperature.feels_like,
                      conditions |-> data.conditions,
                      humidity |-> data.humidity,
                      wind_speed |-> data.current_weather.wind.speed])

\* the except clauses of the agent-facing get_weather
AgentExcept(e, city) ==
    IF IsSubclass(e.exc, "CityNotFoundError")
    THEN [success |-> FALSE, error |-> "city_not_found", message |-> <<"Cidade nao encontrada">>]
    ELSE IF IsSubclass(e.exc, "WeatherAPIError")
    THEN [success |-> FALSE, error |-> "api_error", message |-> e.text]
    ELSE [success |-> FALSE, error |-> "unknown",
          message |-> <<"Erro inesperado: ">> \o e.text \o <<e.field>>]

\* the agent-facing get_weather(city) of the examples
AgentGetWeatherCall(got, city) ==
    LET r == AgentTry(got)
    IN  IF r.ok THEN r.value[1] ELSE AgentExcept(r.err[1], city)

AgentOutcomes ==
    { TimedOut, Response(404, BodyNotJson, ""), Response(500, BodyNotJson, ""),
      Response(200, BodyMild, ""), Response(200, BodyNoSys, ""),
      Response(200, BodyNoWeather, ""), Response(200, BodyNoName, "") }

\* get_weather_for_agent: self.get_weather(city).to_agent_format()
ForAgent(result, city) ==
    IF result.ok THEN Ok(ToAgentFormat(result.value[1])) ELSE result

\* display_weather: self.get_weather(city).to_display_format()
ForDisplay(result, city) ==
    IF result.ok THEN Ok(ToDisplayFormat(result.value[1])) ELSE result

ForAgentInterface(result, city) == AgentGetWeatherCall(ForAgent(result, city), city)

\* what operation `op` makes of the result of get_weather(city)
After(op, result, city) ==
    CASE op = "get_weather_for_agent" -> ForAgent(result, city)
      [] op = "display_weather" -> ForDisplay(result, city)
      [] op = "agent.get_weather" -> ForAgentInterface(result, city)

\* one call of `op`: get_weather(city), then what `op` makes of its result
AdapterCall(op) ==
    \E city \in FetchCities :
        \E outcome \in IF SendsRequest(city) THEN AgentOutcomes ELSE {TimedOut} :
            \E r \in {GetWeatherCall(cache, now, city, outcome, 0)} :
                /\ cache' = r.cache
                /\ now' = r.now
                /\ call' = [r.call EXCEPT !.op = op,
                                           !.returned = Some(After(op, r.call.result[1], city))]
                /\ lastFetched' = NoteFetched(lastFetched, r.call, r.now)

\* WeatherTool.get_weather_for_agent
GetWeatherForAgent == AdapterCall("get_weather_for_agent")

\* WeatherTool.display_weather
DisplayWeather == AdapterCall("display_weather")

\* get_weather of weather_tool_p_agentes_ia.py, the tool being configured
AgentGetWeather == AdapterCall("agent.get_weather")

NextAgent == GetWeatherForAgent \/ DisplayWeather \/ AgentGetWeather \/ WindowPasses

SpecAgent == Init /\ [][NextAgent]_vars

(***************************************************************************)
(* settings.py and WeatherTool.__init__: building a configuration from     *)
(* keyword arguments and the environment, and the request a tool sends     *)
(***************************************************************************)
DefaultBaseUrl == "https://api.openweathermap.org/data/2.5/weather"

DefaultTimeout == 10

MinTimeout == 1

MaxTimeout == 30

LongKey == <<"t", "e", "s", "t", "_", "k", "e", "y", "_", "1", "2", "3">>

\* credentials: empty, blank, one character, a dozen characters
KeySamples == { <<>>, <<" ">>, <<"k">>, LongKey }

\* the ways a caller hands a credential to WeatherConfig(...): not at all, under
\* the field name api_key, under the alias OPENWEATHER_API_KEY
KeyArguments ==
    {[how |-> "absent", value |-> <<>>]}
    \cup {[how |-> h, value |-> k] : h \in {"name", "alias"}, k \in KeySamples}

TimeoutArguments == {None} \cup {Some(n) : n \in (MinTimeout - 1)..(MaxTimeout + 1)}

UrlArguments == {None, Some("https://api.test.com")}

\* the environment: OPENWEATHER_API_KEY unset, or set to a credential
Environments == {None} \cup {Some(k) : k \in KeySamples}

ConfigInputs ==
    {[key |-> k, base_url |-> u, timeout |-> t, env |-> e] :
        k \in KeyArguments, u \in UrlArguments, t \in TimeoutArguments, e \in Environments}

\* timeout: int = Field(default=10, ge=1, le=30)
TimeoutValid(n) == MinTimeout <= n /\ n <= MaxTimeout

\* WeatherConfig(**kwargs) with environment env: the field api_key is filled
\* from its alias (populate_by_name is not set, extra keys are ignored), an
\* argument before the environment
WeatherConfig(in) ==
    LET api_key == IF in.key.how = "alias" THEN Some(in.key.value) ELSE in.env
        base_url == IF in.base_url = None THEN DefaultBaseUrl ELSE in.base_url[1]
        timeout == IF in.timeout = None THEN DefaultTimeout ELSE in.timeout[1]
    IN  IF ~TimeoutValid(timeout)
        THEN Raise(Exc("ValidationError", <<"validation error for WeatherConfig">>,
                       None, "timeout", 0))
        ELSE Ok([api_key |-> api_key, base_url |-> base_url, timeout |-> timeout])

\* get_settings(), the environment being env
GetSettings(env) ==
    LET config == WeatherConfig([key |-> [how |-> "absent", value |-> <<>>],
                                 base_url |-> None, timeout |-> None, env |-> env])
    IN  IF ~config.ok THEN config
        ELSE IF config.value[1].api_key = None \/ IsBlank(config.value[1].api_key[1])
        THEN Raise(Exc("ValueError", <<"API key nao configurada">>, None, "", 0))
        ELSE config

\* WeatherTool(config): config or get_settings()
ToolConfig(config, env) == IF config # None THEN Ok(config[1]) ELSE GetSettings(env)

\* what _fetch_from_api passes to requests.get for a city
RequestArgs(config, city) ==
    [url |-> config.base_url,
     params |-> [q |-> Strip(city), appid |-> config.api_key, units |-> "metric",
                 lang |-> "pt_br"],
     timeout |-> config.timeout]

InitConfig ==
    /\ cache = <<>>
    /\ now = 0
    /\ lastFetched = NothingFetched
    /\ \E in \in ConfigInputs : call = [NoCall EXCEPT !.info = Some(in)]

\* WeatherConfig(**kwargs)
Configure ==
    /\ call.op = "none"
    /\ call' = [call EXCEPT !.op = "WeatherConfig", !.result = Some(WeatherConfig(call.info[1]))]
    /\ UNCHANGED <<cache, now, lastFetched>>

\* get_settings()
LoadSettings ==
    /\ call.op = "none"
    /\ call' = [call EXCEPT !.op = "get_settings", !.result = Some(GetSettings(call.info[1].env))]
    /\ UNCHANGED <<cache, now, lastFetched>>

\* a tool built on `held`, then its first request for "SP": the log has the
\* configuration the tool holds and the arguments of requests.get
ToolLog(op, held) ==
    [call EXCEPT !.op = op, !.result = Some(held),
                 !.returned = IF held.ok THEN Some(RequestArgs(held.value[1], <<"S", "P">>))
                              ELSE None]

\* WeatherTool(WeatherConfig(**kwargs)).get_weather("SP"), up to requests.get
ToolWithConfig ==
    /\ call.op = "none"
    /\ \E config \in {WeatherConfig(call.info[1])} :
         call' = ToolLog("WeatherTool(config)",
                         IF config.ok THEN ToolConfig(config.value, call.info[1].env)
                         ELSE config)
    /\ UNCHANGED <<cache, now, lastFetched>>

\* WeatherTool().get_weather("SP"), up to requests.get
ToolFromSettings ==
    /\ call.op = "none"
    /\ call' = ToolLog("WeatherTool()", ToolConfig(None, call.info[1].env))
    /\ UNCHANGED <<cache, now, lastFetched>>

NextConfig == Configure \/ LoadSettings \/ ToolWithConfig \/ ToolFromSettings

SpecConfig == InitConfig /\ [][NextConfig]_vars

(***************************************************************************)
(* weather_tool_p_agentes_ia.py with its tool singleton: get_weather(city) *)
(* from _get_tool() on, in an environment that has a credential or not;    *)
(* call.info holds the environment and the singleton                       *)
(***************************************************************************)
\* _get_tool(): the singleton, built by WeatherTool() when there is none yet
GetTool(info) ==
    IF info.tool # None THEN Ok(info.tool[1]) ELSE ToolConfig(None, info.env)

\* _weather_tool = None at import, the mapping of the tool to be built is empty
InitInterface ==
    /\ cache = <<>>
    /\ now = 0
    /\ lastFetched = NothingFetched
    /\ \E env \in Environments :
         call = [NoCall EXCEPT !.info = Some([env |-> env, tool |-> None])]

\* get_weather(city) of weather_tool_p_agentes_ia.py: _get_tool() before the try
\* block, then the lookup, the try block and the except clauses
InterfaceGetWeather ==
    \E city \in FetchCities :
        \E held \in {GetTool(call.info[1])} :
            IF ~held.ok
            THEN /\ call' = CallLog("agent.get_weather", city, None, "raised", FALSE, 0,
                                    None, Some(held), call.info)
                 /\ UNCHANGED <<cache, now, lastFetched>>
            ELSE \E outcome \in IF SendsRequest(city) THEN AgentOutcomes ELSE {TimedOut} :
                    \E r \in {GetWeatherCall(cache, now, city, outcome, 0)} :
                        /\ cache' = r.cache
                        /\ now' = r.now
                        /\ call' = [r.call EXCEPT
                                      !.op = "agent.get_weather",
                                      !.info = Some([call.info[1] EXCEPT
                                                       !.tool = Some(held.value[1])]),
                                      !.returned = Some(ForAgentInterface(r.call.result[1],
                                                                          city))]
                        /\ lastFetched' = NoteFetched(lastFetched, r.call, r.now)

\* OPENWEATHER_API_KEY is set, changed or unset between two calls
SetEnvironment ==
    /\ \E env \in Environments \ {call.info[1].env} :
         call' = [call EXCEPT !.info = Some([call.info[1] EXCEPT !.env = env])]
    /\ UNCHANGED <<cache, now, lastFetched>>

NextInterface == InterfaceGetWeather \/ SetEnvironment \/ WindowPasses

SpecInterface == InitInterface /\ [][NextInterface]_vars

(***************************************************************************)
(* get_weather run by two callers at once on one tool, with no lock: each  *)
(* caller goes through the statements of get_weather one at a time, and    *)
(* `call` holds, for each caller, the frame of its current or last call    *)
(***************************************************************************)
Callers == {1, 2}

ConcCities == { <<"S", "P">>, <<" ", "s", "p", " ">> }

ConcOutcomes == { TimedOut, Response(200, BodyMild, ""), Response(200, BodyCool, "") }

\* the frame of a caller: where it is in get_weather, its argument, the locals
\* cache_entry and weather_data, and what the call gave in the end
Frame(pc, city, cache_entry, weather_data, result, evicted, requests) ==
    [pc |-> pc, city |-> city, cache_entry |-> cache_entry, weather_data |-> weather_data,
     result |-> result, evicted |-> evicted, requests |-> requests]

IdleFrame == Frame("idle", <<>>, None, None, None, FALSE, 0)

InitConc ==
    /\ cache = <<>>
    /\ now = 0
    /\ lastFetched = NothingFetched
    /\ call = [w \in Callers |-> IdleFrame]

\* caller w moves to frame f; the mapping becomes c
Step(w, f, c) ==
    /\ call' = [call EXCEPT ![w] = f]
    /\ cache' = c
    /\ UNCHANGED <<now, lastFetched>>

\* the call ends for caller w with `result`
Done(w, result) == [call[w] EXCEPT !.pc = "done", !.result = Some(result)]

\* self._cache[city_key] and del self._cache[city_key] on a key that is not there
MissingKey(city_key) == Raise(Exc("KeyError", <<>>, Some(city_key), "", 0))

\* lines 33-37: get_weather(city) begins, the blank check, city_key
Begin(w) ==
    /\ call[w].pc \in {"idle", "done"}
    /\ \E city \in ConcCities :
         LET f == [IdleFrame EXCEPT !.city = city]
         IN  IF IsBlank(city)
             THEN Step(w, [f EXCEPT !.pc = "done", !.result = Some(RejectBlank(city))], cache)
             ELSE Step(w, [f EXCEPT !.pc = "member"], cache)

\* line 40: if city_key in self._cache
Member(w) ==
    /\ call[w].pc = "member"
    /\ Step(w, [call[w] EXCEPT !.pc = IF DictHas(cache, CityKey(call[w].city))
                                      THEN "read" ELSE "fetch"], cache)

\* line 41: cache_entry = self._cache[city_key]
ReadEntry(w) ==
    /\ call[w].pc = "read"
    /\ LET city_key == CityKey(call[w].city)
       IN  IF DictHas(cache, city_key)
           THEN Step(w, [call[w] EXCEPT !.pc = "valid",
                                        !.cache_entry = Some(DictGet(cache, city_key))], cache)
           ELSE Step(w, Done(w, MissingKey(city_key)), cache)

\* lines 42-45: if self._is_cache_valid(cache_entry): return cache_entry["data"]
Validate(w) ==
    /\ call[w].pc = "valid"
    /\ IF IsCacheValid(call[w].cache_entry[1], now)
       THEN Step(w, Done(w, Ok(call[w].cache_entry[1].data)), cache)
       ELSE Step(w, [call[w] EXCEPT !.pc = "del"], cache)

\* line 49: del self._cache[city_key]
Remove(w) ==
    /\ call[w].pc = "del"
    /\ LET city_key == CityKey(call[w].city)
       IN  IF DictHas(cache, city_key)
           THEN Step(w, [call[w] EXCEPT !.pc = "fetch", !.evicted = TRUE],
                     DictDel(cache, city_key))
           ELSE Step(w, Done(w, MissingKey(city_key)), cache)

\* line 55: weather_data = self._fetch_from_api(city)
Fetch(w) ==
    /\ call[w].pc = "fetch"
    /\ \E outcome \in ConcOutcomes :
         \E r \in {FetchFromApi(call[w].city, outcome, now)} :
            IF r.ok
            THEN Step(w, [call[w] EXCEPT !.pc = "store", !.weather_data = Some(r.value[1]),
                                         !.requests = @ + Attempts(r)], cache)
            ELSE Step(w, [Done(w, Propagate(r)) EXCEPT !.requests = @ + Attempts(r)], cache)

\* variant: the store appends an entry, whether or not the key is there
StoreEntryAppending(w) ==
    /\ call[w].pc = "store"
    /\ Step(w, Done(w, Ok(call[w].weather_data[1])),
            Append(cache, [key |-> CityKey(call[w].city),
                           val |-> CacheEntry(call[w].weather_data[1], now)]))

\* lines 58-66: self._cache[city_key] = {...}; return weather_data
StoreEntry(w) ==
    /\ call[w].pc = "store"
    /\ Step(w, Done(w, Ok(call[w].weather_data[1])),
            DictSet(cache, CityKey(call[w].city),
                    CacheEntry(call[w].weather_data[1], now)))

NextConc ==
    \/ \E w \in Callers :
          \/ Begin(w)
          \/ Member(w)
          \/ ReadEntry(w)
          \/ Validate(w)
          \/ Remove(w)
          \/ Fetch(w)
          \/ StoreEntry(w)
    \/ Tick

SpecConc == InitConc /\ [][NextConc]_vars

(***************************************************************************)
(* Properties                                                              *)
(***************************************************************************)
\* two city arguments are equal after lowercasing and trimming
SameCity(a, b) == Strip(Lower(a)) = Strip(Lower(b))

\* this step is a completed get_weather call on a non-blank city
LookupStep ==
    /\ call' # call
    /\ call'.op = "get_weather"
    /\ call'.path # "invalid"

\* the positions of the entries of mapping c for the city argument
EntriesFor(c, city) == {i \in 1..Len(c) : SameCity(c[i].key, city)}

\* the error the caller received, when the logged call failed
Failure(log) == log.result[1].err[1]

Failed(log) == log.result # None /\ ~log.result[1].ok

Succeeded(log) == log.result # None /\ log.result[1].ok

\* C1 (idempotent hit): when a get_weather(C) call fetched and returned record R
\* at time T, every get_weather(C) call made less than CacheDuration after T, with
\* no clear_cache in between, returns R itself and sends no request.
IdempotentHit ==
    [][\A c \in Cities :
        (LookupStep /\ call'.city = c /\ lastFetched[c] # None
            /\ now - lastFetched[c][1].at < CacheDuration)
        => /\ call'.result = Some(Ok(lastFetched[c][1].data))
           /\ call'.requests = 0
           /\ call'.outcome = None
           /\ cache' = cache]_vars

\* a hit for a city, strictly later than the call that fetched its record
IdempotentHitWitness ==
    /\ call.op = "get_weather"
    /\ call.path = "hit"
    /\ call.requests = 0
    /\ lastFetched[call.city] # None
    /\ call.result = Some(Ok(lastFetched[call.city][1].data))
    /\ now = lastFetched[call.city][1].at + HalfWindow

\* C2 (expiry): a get_weather(C) call made CacheDuration or more after the entry of
\* C's key was inserted (exactly CacheDuration included) sends exactly one request;
\* when it succeeds, the key holds one entry, with the record the call returned and
\* a newer insertion timestamp.
Expiry ==
    [][\A i \in 1..Len(cache) :
        (LookupStep /\ SameCity(cache[i].key, call'.city)
            /\ now - cache[i].val.timestamp >= CacheDuration)
        => /\ call'.path = "miss"
           /\ call'.requests = 1
           /\ Succeeded(call') =>
                \E j \in 1..Len(cache') :
                    /\ EntriesFor(cache', call'.city) = {j}
                    /\ cache'[j].key = cache[i].key
                    /\ cache'[j].val.data = call'.result[1].value[1]
                    /\ cache'[j].val.data.timestamp = now
                    /\ cache'[j].val.timestamp = now'
                    /\ cache'[j].val.timestamp > cache[i].val.timestamp]_vars

\* a refetch that replaced an entry exactly CacheDuration after it was inserted at 0
ExpiryWitness ==
    /\ call.op = "get_weather"
    /\ call.evicted
    /\ call.requests = 1
    /\ Succeeded(call)
    /\ now = CacheDuration
    /\ \E i \in 1..Len(cache) :
        /\ SameCity(cache[i].key, call.city)
        /\ cache[i].val.data = call.result[1].value[1]
        /\ cache[i].val.timestamp = CacheDuration

\* C3 (key normalization): once get_weather has fetched for a city, a get_weather
\* of a different string that is equal to it after lowercasing and trimming, made
\* within the freshness window, returns the same record and sends no request.
KeyNormalization ==
    [][\A a, b \in Cities :
        (LookupStep /\ call'.city = b /\ a # b /\ SameCity(a, b) /\ lastFetched[a] # None
            /\ now - lastFetched[a][1].at < CacheDuration)
        => /\ call'.path = "hit"
           /\ call'.result = Some(Ok(lastFetched[a][1].data))
           /\ call'.requests = 0
           /\ cache' = cache]_vars

\* a hit through a spelling other than the one that was fetched
KeyNormalizationWitness ==
    /\ call.op = "get_weather"
    /\ call.path = "hit"
    /\ \E a \in Cities :
        /\ a # call.city
        /\ SameCity(a, call.city)
        /\ lastFetched[a] # None
        /\ lastFetched[call.city] = None
        /\ call.result = Some(Ok(lastFetched[a][1].data))

\* C4 (failures propagate, never cached): when _fetch_from_api fails, whatever the
\* failure (timeout, connection, 404, 401, other status, malformed body), the
\* caller of get_weather receives that very error, and after the call the mapping
\* holds no entry for the city's key.
FailuresPropagate ==
    (call.op = "get_weather" /\ call.fetched # None /\ ~call.fetched[1].ok)
    => /\ call.result = call.fetched
       /\ EntriesFor(cache, call.city) = {}

\* a failed refetch (malformed body) of a stale entry, beside another cached city
FailuresPropagateWitness ==
    /\ call.op = "get_weather"
    /\ call.evicted
    /\ call.outcome = Some(Response(200, BodyNoName, ""))
    /\ Failed(call)
    /\ Failure(call).field = "name"
    /\ Len(cache) = 1

\* C5 as claimed (404 mapping): on a 404 response get_weather(C) fails with
\* CityNotFoundError quoting C, and the mapping has the same keys as before the call.
NotFoundKeepsKeys ==
    [][(LookupStep /\ call'.outcome # None /\ call'.outcome[1].kind = "response"
            /\ call'.outcome[1].status = 404)
        => /\ Failed(call')
           /\ Failure(call').exc = "CityNotFoundError"
           /\ Failure(call').city = call'.city
           /\ DictKeys(cache') = DictKeys(cache)]_vars

\* C5 as amended: on a 404 response get_weather(C) fails with CityNotFoundError
\* quoting C and creates no entry; the mapping after the call is the mapping before
\* it without the stale entry of C's key, if there was one.
NotFoundMapping ==
    [][(LookupStep /\ call'.outcome # None /\ call'.outcome[1].kind = "response"
            /\ call'.outcome[1].status = 404)
        => /\ Failed(call')
           /\ Failure(call').exc = "CityNotFoundError"
           /\ Failure(call').city = call'.city
           /\ cache' = SelectSeq(cache, LAMBDA it : ~SameCity(it.key, call'.city))
           /\ EntriesFor(cache', call'.city) = {}]_vars

\* a 404 on the refetch of a stale entry: the key is gone after the call
NotFoundMappingWitness ==
    /\ call.op = "get_weather"
    /\ call.outcome = Some(Response(404, BodyNotJson, ""))
    /\ call.evicted
    /\ Failed(call)
    /\ Failure(call).exc = "CityNotFoundError"
    /\ Failure(call).city = call.city
    /\ EntriesFor(cache, call.city) = {}

\* the classes get_weather raises when a request fails
FetchFailureKinds ==
    {FetchFromApi(<<"S", "P">>, o, 0).err[1].exc :
        o \in {x \in AllOutcomes : ~FetchFromApi(<<"S", "P">>, x, 0).ok}}

\* C6 (invalid input): get_weather of an empty or whitespace-only city fails with
\* an error of the taxonomy whose kind is the kind of no other failure, sends no
\* request and leaves the mapping unchanged.
InvalidInputDistinct ==
    [][(call' # call /\ call'.op = "get_weather" /\ IsBlank(call'.city))
        => /\ Failed(call')
           /\ Failure(call').exc \in Taxonomy
           /\ Failure(call').exc \notin FetchFailureKinds
           /\ call'.requests = 0
           /\ cache' = cache]_vars

\* C7 (every failure is typed): whatever the transport does and whatever body it
\* delivers, get_weather returns a record or raises WeatherAPIError or one of its
\* subclasses.
EveryFailureTyped ==
    call.op = "get_weather"
    => \/ Succeeded(call)
       \/ /\ Failed(call)
          /\ Failure(call).exc \in {"WeatherAPIError", "CityNotFoundError",
                                    "InvalidAPIKeyError", "NetworkError"}

\* an undecodable 200 body met by a json() that raises a plain ValueError subclass
EveryFailureTypedWitness ==
    /\ call.op = "get_weather"
    /\ call.outcome = Some(Response(200, BodyNotJson, "JSONDecodeError"))
    /\ Failed(call)
    /\ Failure(call).exc = "WeatherAPIError"
    /\ Failure(call).text = <<"Erro inesperado: ", "Expecting value">>

\* C8 (single attempt): a get_weather call sends one request when the key has no
\* entry or a stale one, none when the entry is fresh or the city is blank, and
\* never more than one, failure or not.
SingleAttempt ==
    [][(call' # call /\ call'.op = "get_weather")
        => LET fresh == {i \in EntriesFor(cache, call'.city) :
                            now - cache[i].val.timestamp < CacheDuration}
           IN  call'.requests = IF IsBlank(call'.city) \/ fresh # {} THEN 0 ELSE 1]_vars

\* a failed call on the miss path that sent its one request
SingleAttemptWitness ==
    /\ call.op = "get_weather"
    /\ call.path = "miss"
    /\ Failed(call)
    /\ Failure(call).exc = "NetworkError"
    /\ call.requests = 1

\* C9 (cache key invariant): every key of the mapping is a lowercased, trimmed,
\* non-empty city name, and no two entries have the same key.
CacheKeyInvariant ==
    \A i \in 1..Len(cache) :
        /\ cache[i].key # <<>>
        /\ cache[i].key = Lower(cache[i].key)
        /\ cache[i].key = Strip(cache[i].key)
        /\ \A j \in 1..Len(cache) : cache[j].key = cache[i].key => j = i

\* two cities cached, one of them refetched through a padded upper-case spelling
CacheKeyInvariantWitness ==
    /\ Len(cache) = 2
    /\ call.op = "get_weather"
    /\ call.city = <<"R", "j", " ">>
    /\ call.evicted
    /\ Succeeded(call)

\* C10 (get_cache_info is read-only): a get_cache_info call leaves the mapping as
\* it was, stale entries included, and reports as valid the number of entries
\* inserted less than CacheDuration ago.
CacheInfoReadOnly ==
    [][(call' # call /\ call'.op = "get_cache_info")
        => /\ cache' = cache
           /\ call'.info[1].valid_entries =
                Cardinality({i \in 1..Len(cache) :
                                now - cache[i].val.timestamp < CacheDuration})]_vars

\* statistics taken over one fresh and one stale entry, both still in the mapping
CacheInfoReadOnlyWitness ==
    /\ call.op = "get_cache_info"
    /\ call.info[1].valid_entries = 1
    /\ call.info[1].expired_entries = 1
    /\ Len(cache) = 2
    /\ \E i \in 1..Len(cache) : now - cache[i].val.timestamp = CacheDuration

\* this step is a completed clear_cache call
ClearStep == call' # call /\ call'.op = "clear_cache"

\* C11 as claimed (clear): clear_cache removes every entry and returns to the
\* caller the number of entries the mapping had just before the call.
ClearReturnsCount ==
    [][ClearStep => /\ cache' = <<>>
                    /\ call'.returned = Some(Len(cache))]_vars

\* C11 as amended: clear_cache removes every entry and returns None; the number
\* of entries the mapping had just before the call is only written to the log.
ClearRemovesAll ==
    [][ClearStep => /\ cache' = <<>>
                    /\ call'.returned = None
                    /\ call'.removed = Len(cache)]_vars

\* a clear_cache that removed two entries, a window or more after the start
ClearRemovesAllWitness ==
    /\ call.op = "clear_cache"
    /\ call.removed = 2
    /\ call.returned = None
    /\ cache = <<>>
    /\ now >= CacheDuration

\* C12 (after clear): once clear_cache has run, whatever came before it, a
\* get_cache_info that follows reports total 0, valid 0, expired 0 and no keys,
\* and a get_weather of any city that follows sends its one request.
AfterClear ==
    call.op = "clear_cache"
    => /\ LET info == CacheInfo(cache, now)
          IN  /\ info.total_cities = 0
              /\ info.valid_entries = 0
              /\ info.expired_entries = 0
              /\ info.cached_cities = <<>>
       /\ \A city \in {c \in Cities : ~IsBlank(c)}, outcome \in Outcomes :
            LET log == GetWeatherCall(cache, now, city, outcome, 0).call
            IN  log.path = "miss" /\ log.requests = 1 /\ ~log.evicted

\* a clear_cache that emptied a mapping holding a fresh and a stale entry
AfterClearWitness ==
    /\ call.op = "clear_cache"
    /\ call.removed = 2
    /\ now = CacheDuration
    /\ CacheInfo(cache, now).total_cities = 0

\* the logged call sent a request that was answered with the given status
AnsweredWith(log, status) ==
    /\ log.op = "get_weather"
    /\ log.outcome # None
    /\ log.outcome[1].kind = "response"
    /\ log.outcome[1].status = status

\* C13 (401 mapping): a get_weather call whose request is answered with status 401
\* raises InvalidAPIKeyError, exactly that class, from _fetch_from_api and to its
\* caller; it sent that one request only, and the mapping has no entry for the
\* city afterwards and no entry it did not have before.
InvalidKeyMapping ==
    [][(call' # call /\ AnsweredWith(call', 401))
        => /\ Failed(call')
           /\ call'.fetched = call'.result
           /\ Failure(call').exc = "InvalidAPIKeyError"
           /\ call'.requests = 1
           /\ EntriesFor(cache', call'.city) = {}
           /\ \A i \in 1..Len(cache') : DictHas(cache, cache'[i].key)]_vars

\* a 401 on the refetch of a stale entry while another city is cached
InvalidKeyMappingWitness ==
    /\ AnsweredWith(call, 401)
    /\ call.evicted
    /\ Failed(call)
    /\ Failure(call).exc = "InvalidAPIKeyError"
    /\ call.requests = 1
    /\ Len(cache) = 1
    /\ EntriesFor(cache, call.city) = {}

\* an HTTP success status: 2xx
SuccessStatus(status) == 200 <= status /\ status < 300

\* C14 (other statuses): a get_weather call whose request is answered with a
\* status that is not a success status and is neither 404 nor 401 raises the base
\* class WeatherAPIError with the "Erro na API" message, which carries the status
\* and the text of the HTTP error; it raises none of CityNotFoundError,
\* InvalidAPIKeyError and NetworkError.
OtherStatusGeneric ==
    \A status \in (100..599) \ {401, 404} :
        (AnsweredWith(call, status) /\ ~SuccessStatus(status))
        => /\ Failed(call)
           /\ Failure(call).exc = "WeatherAPIError"
           /\ Failure(call).status = status
           /\ Failure(call).text = <<"Erro na API: ", "Error for url">>

\* the logged call sent a request that met a transport failure of the given kinds
MetTransport(log, kinds) ==
    /\ log.op = "get_weather"
    /\ log.outcome # None
    /\ log.outcome[1].kind \in kinds

\* C15 (transport failures): a get_weather call whose request times out (while
\* connecting or while reading) raises NetworkError with the timeout message for
\* the queried city; one whose connection fails raises NetworkError with the
\* connection message. A timeout never gets the connection message, and neither
\* raises a class or message of the status-based failures.
TransportFailures ==
    /\ MetTransport(call, {"timeout", "connect_timeout"})
       => /\ Failed(call)
          /\ Failure(call).exc = "NetworkError"
          /\ Failure(call).text = <<"Timeout ao buscar">>
          /\ Failure(call).city = call.city
    /\ MetTransport(call, {"connection"})
       => /\ Failed(call)
          /\ Failure(call).exc = "NetworkError"
          /\ Head(Failure(call).text) = "Erro de conexao: "
          /\ Failure(call).status = 0

\* a connect timeout, which is both a ConnectionError and a Timeout, reported as
\* a timeout
TransportFailuresWitness ==
    /\ call.op = "get_weather"
    /\ call.outcome = Some(ConnectTimedOut)
    /\ Failed(call)
    /\ Failure(call).exc = "NetworkError"
    /\ Failure(call).text = <<"Timeout ao buscar">>

\* the logged call received a decoded JSON object with a status that passed
\* raise_for_status
GotObject(log) ==
    /\ log.op = "get_weather"
    /\ log.outcome # None
    /\ log.outcome[1].kind = "response"
    /\ log.outcome[1].status = 200
    /\ log.outcome[1].body.json
    /\ log.outcome[1].body.isdict

\* the required fields a body lacks: the city name, the temperature block or one
\* of its fields, a field of a condition descriptor
RequiredMissing(body) ==
    (IF body.name = None THEN {"name"} ELSE {})
    \cup (IF body.main = None THEN {"main"}
          ELSE {k \in {"temp", "temp_min", "temp_max", "humidity", "feels_like"} :
                    body.main[1][k] = None})
    \cup (IF body.weather = None THEN {}
          ELSE {k \in {"main", "description", "icon"} :
                    \E i \in 1..Len(body.weather[1]) : body.weather[1][i][k] = None})

\* a temperature, in hundredths of a degree, within [-50, 60]
WithinBounds(h) == -5000 <= h /\ h <= 6000

\* a body whose temp, temp_min, temp_max or humidity, where present, is out of range
CarriesRejected(body) ==
    /\ body.main # None
    /\ \/ \E k \in {"temp", "temp_min", "temp_max"} :
             body.main[1][k] # None /\ ~WithinBounds(body.main[1][k][1])
       \/ body.main[1].humidity # None
             /\ body.main[1].humidity[1] \notin 0..100

\* the failure of the logged call is the missing-field failure for one of `fields`,
\* from _fetch_from_api and at the caller alike, and nothing is cached for the city
FailsNaming(log, c, fields) ==
    /\ Failed(log)
    /\ log.fetched = log.result
    /\ Failure(log).exc = "WeatherAPIError"
    /\ Failure(log).field \in fields
    /\ EntriesFor(c, log.city) = {}

TemperatureFields == {"temp", "temp_min", "temp_max", "feels_like"}

\* the logged call is a WeatherMain construction that raised ValidationError
Rejected(log) == Failed(log) /\ Failure(log).exc = "ValidationError"

\* C18 (temperature bounds): WeatherMain raises ValidationError when one of temp,
\* temp_min, temp_max, feels_like is outside [-50, 60] and returns a record when
\* all four are inside (humidity being valid), -50 and 60 included; no record in
\* the mapping has one of the four outside [-50, 60].
TemperatureBounds ==
    /\ call.op = "WeatherMain"
       => LET a == call.info[1]
          IN  /\ (\E f \in TemperatureFields : ~WithinBounds(a[f])) => Rejected(call)
              /\ ((\A f \in TemperatureFields : WithinBounds(a[f])) /\ a.humidity \in 0..100)
                 => Succeeded(call)
    /\ \A i \in 1..Len(cache), f \in TemperatureFields :
         WithinBounds(cache[i].val.data.main[f])

\* C19 (humidity bounds): WeatherMain returns a record with the given humidity
\* for every humidity in 0..100 (the temperatures being within bounds) and raises
\* ValidationError for every humidity below 0 or above 100; every record in the
\* mapping has its humidity in 0..100.
HumidityBounds ==
    /\ call.op = "WeatherMain"
       => LET a == call.info[1]
          IN  /\ a.humidity \notin 0..100 => Rejected(call)
              /\ (a.humidity \in 0..100 /\ \A f \in TemperatureFields : WithinBounds(a[f]))
                 => /\ Succeeded(call)
                    /\ call.result[1].value[1].humidity = a.humidity
    /\ \A i \in 1..Len(cache) : cache[i].val.data.main.humidity \in 0..100

\* a response with humidity 100 was parsed and its record is in the mapping
HumidityBoundsWitness ==
    /\ call.op = "get_weather"
    /\ call.info # None
    /\ call.info[1].humidity = 100
    /\ Succeeded(call)
    /\ Len(cache) = 1
    /\ cache[1].val.data.main.humidity = 100

\* field values with a temperature outside [-50, 60] or a humidity outside 0..100
OutOfRange(a) ==
    \/ \E f \in TemperatureFields : ~WithinBounds(a[f])
    \/ a.humidity \notin 0..100

\* C17 (out-of-range body): a get_weather call answered with a 200 body that
\* carries a temperature outside [-50, 60] or a humidity outside 0..100 raises
\* ValidationError, from _fetch_from_api and to its caller alike, and the mapping
\* gets no entry.
OutOfRangeSurfaced ==
    (call.op = "get_weather" /\ call.info # None /\ OutOfRange(call.info[1]))
    => /\ Failed(call)
       /\ call.fetched = call.result
       /\ Failure(call).exc = "ValidationError"
       /\ cache = <<>>

\* the logged call is a _parse_response call that followed another one
ParsedAgain(log) == log.op = "_parse_response" /\ log.fetched # None

\* C20 as claimed (parsing is deterministic): a second parse of a body gives the
\* result of the first, whatever the two times and the contents of the mapping:
\* an equal record, timestamp included, or the same failure.
ParseDeterministic ==
    ParsedAgain(call) => call.result = call.fetched

\* C20 as amended: a second parse of a body gives the same failure as the first,
\* or a record equal to the first in every attribute but the timestamp, which is
\* the time of the parse that built it.
ParseDeterministicButStamp ==
    /\ ParsedAgain(call)
       => LET first == call.fetched[1]
              again == call.result[1]
          IN  /\ again.ok = first.ok
              /\ ~first.ok => again = first
              /\ first.ok
                 => [again.value[1] EXCEPT !.timestamp = first.value[1].timestamp]
                        = first.value[1]
    /\ (call.op = "_parse_response" /\ Succeeded(call))
       => call.result[1].value[1].timestamp = call.info[1].at

\* a body parsed a second time, later and with an entry in the mapping, into a
\* record that differs from the first in its timestamp only
ParseDeterministicWitness ==
    /\ ParsedAgain(call)
    /\ Succeeded(call)
    /\ call.fetched[1].ok
    /\ call.fetched[1].value[1].timestamp = 0
    /\ call.result[1].value[1].timestamp = CacheDuration
    /\ cache # <<>>

\* C21 (extra fields are ignored): parsing a body to which an unknown key was
\* added, at top level, in the temperature block, in the sys block or in the
\* condition descriptors, succeeds or fails as the parse before it did, with the
\* same failure or with a record that has the same attributes, the timestamp
\* being the time of the parse as for any parse.
ExtraFieldsIgnored ==
    (ParsedAgain(call) /\ call.path # "none")
    => LET first == call.fetched[1]
           again == call.result[1]
       IN  /\ again.ok = first.ok
           /\ ~first.ok => again = first
           /\ first.ok
              => /\ [again.value[1] EXCEPT !.timestamp = first.value[1].timestamp]
                        = first.value[1]
                 /\ again.value[1].timestamp = call.info[1].at

\* a body with an unknown key in its condition descriptors, parsed into a record
\* after the plain body was
ExtraFieldsIgnoredWitness ==
    /\ ParsedAgain(call)
    /\ call.path = "descriptor"
    /\ Succeeded(call)
    /\ call.fetched[1].ok
    /\ call.result[1].value[1].weather = call.fetched[1].value[1].weather
    /\ Len(call.result[1].value[1].weather) = 2

\* this step is a completed call of one of the two adapter methods of WeatherTool
AdapterStep ==
    /\ call' # call
    /\ call'.op \in {"get_weather_for_agent", "display_weather"}

\* the description an adapter shows for a record, `default` when it has none
ShownDescription(record, default) ==
    IF record.weather = <<>> THEN default ELSE record.weather[1].description

\* C22 (adapters on descriptions): get_weather_for_agent and display_weather
\* return whenever the get_weather they call returns a record; the agent dict has
\* the first description as its conditions, "unknown" when the record has none,
\* and the display text has the first description, "N/A" when there is none; the
\* record is in the mapping as get_weather returned it, and the mapping is what
\* get_weather alone leaves.
Adapters ==
    [][AdapterStep
        => LET res == call'.result[1]
               out == call'.returned[1]
               plain == GetWeatherCall(cache, now, call'.city,
                                       IF call'.outcome = None THEN TimedOut
                                       ELSE call'.outcome[1], 0)
           IN  /\ out.ok = res.ok
               /\ res.ok
                  => /\ call'.op = "get_weather_for_agent"
                        => out.value[1].conditions = ShownDescription(res.value[1], "unknown")
                     /\ call'.op = "display_weather"
                        => out.value[1][8] = Str(ShownDescription(res.value[1], "N/A"))
                     /\ \A i \in EntriesFor(cache', call'.city) :
                            cache'[i].val.data = res.value[1]
               /\ cache' = plain.cache]_vars

\* display_weather on the hit path for a record without descriptions
AdaptersWitness ==
    /\ call.op = "display_weather"
    /\ call.path = "hit"
    /\ Succeeded(call)
    /\ call.result[1].value[1].weather = <<>>
    /\ call.returned[1].ok
    /\ call.returned[1].value[1][8] = Str("N/A")

\* C25 (agent interface success): whenever the get_weather under it returns a
\* record, on the hit path or the miss path, the agent-facing get_weather(city)
\* returns a dict with success = True and that record's city, country,
\* temperature, feels_like, conditions and humidity.
AgentSuccess ==
    (call.op = "agent.get_weather" /\ Succeeded(call))
    => LET record == call.result[1].value[1]
           out == call.returned[1]
       IN  /\ out.success
           /\ out.city = record.city_name
           /\ out.country = record.country
           /\ out.temperature = record.main.temp
           /\ out.feels_like = record.main.feels_like
           /\ out.conditions = ShownDescription(record, "unknown")
           /\ out.humidity = record.main.humidity

\* the least length of a credential, as the validator of the study settings
\* module has it (len(v) < 10 is rejected); weather_tool/settings.py has none
MinKeyLength == 10

\* the logged call built a WeatherTool
ToolBuilt(log) == log.op \in {"WeatherTool(config)", "WeatherTool()"} /\ Succeeded(log)

\* C23 (credential validation): the configuration a WeatherTool holds has a
\* credential that is present, not blank and not shorter than the minimum length;
\* get_settings raises ValueError "API key nao configurada" when the environment
\* has no credential or a blank one, and fails for a credential that is too short.
CredentialValidated ==
    /\ ToolBuilt(call)
       => LET api_key == call.result[1].value[1].api_key
          IN  /\ api_key # None
              /\ ~IsBlank(api_key[1])
              /\ Len(api_key[1]) >= MinKeyLength
    /\ call.op = "get_settings"
       => LET env == call.info[1].env
          IN  /\ (env = None \/ IsBlank(env[1]))
                 => /\ Failed(call)
                    /\ Failure(call).exc = "ValueError"
                    /\ Failure(call).text = <<"API key nao configurada">>
              /\ (env # None /\ Len(env[1]) < MinKeyLength) => Failed(call)

\* C24 (timeout bounds): WeatherConfig(...) fails for a timeout outside 1..30 and
\* succeeds otherwise, with timeout 10 when none is given; built with a
\* credential, a base URL and a timeout in 1..30 it holds exactly those three; a
\* WeatherTool built on a configuration passes its base URL, credential and
\* timeout to requests.get.
TimeoutBounds ==
    /\ call.op = "WeatherConfig"
       => LET given == call.info[1]
              inrange == given.timeout # None /\ given.timeout[1] \in 1..30
          IN  /\ (given.timeout # None /\ ~inrange) => Rejected(call)
              /\ (given.timeout = None \/ inrange) => Succeeded(call)
              /\ (Succeeded(call) /\ given.timeout = None)
                 => call.result[1].value[1].timeout = 10
              /\ (given.key.how # "absent" /\ given.base_url # None /\ inrange)
                 => call.result[1].value[1]
                        = [api_key |-> Some(given.key.value),
                           base_url |-> given.base_url[1],
                           timeout |-> given.timeout[1]]
    /\ ToolBuilt(call)
       => LET config == call.result[1].value[1]
              sent == call.returned[1]
          IN  /\ sent.url = config.base_url
              /\ sent.params.appid = config.api_key
              /\ sent.timeout = config.timeout

\* the age at time t of the entry at position i of mapping c
Age(c, i, t) == t - c[i].val.timestamp

\* C26 (freshness safety): whatever calls came before, a get_weather call that
\* returns a record returns either the record it fetched in that call, with one
\* request, or the record of an entry of its key that is younger than
\* CacheDuration, with no request; it never returns the record of an entry aged
\* CacheDuration or more.
FreshnessSafety ==
    [][(LookupStep /\ Succeeded(call'))
        => \/ /\ call'.requests = 1
              /\ call'.fetched = call'.result
           \/ /\ call'.requests = 0
              /\ \E i \in EntriesFor(cache, call'.city) :
                    /\ cache[i].val.data = call'.result[1].value[1]
                    /\ Age(cache, i, now) < CacheDuration]_vars

\* a lookup that found its entry aged exactly CacheDuration and fetched again
FreshnessSafetyWitness ==
    /\ call.op = "get_weather"
    /\ call.evicted
    /\ Succeeded(call)
    /\ call.requests = 1
    /\ call.result[1].value[1].timestamp = CacheDuration
    /\ Len(cache) = 2

\* C27 (entry creation): an entry appears in the mapping, or gets a new value,
\* only in a get_weather call for a city of that key whose fetch succeeded; the
\* entry then holds the record the call returns, stamped with the time the call
\* ends. No hit, failed call, get_cache_info or clear_cache creates or rewrites
\* an entry.
EntryCreation ==
    [][\A i \in 1..Len(cache') :
        (~DictHas(cache, cache'[i].key) \/ DictGet(cache, cache'[i].key) # cache'[i].val)
        => /\ call' # call
           /\ call'.op = "get_weather"
           /\ SameCity(cache'[i].key, call'.city)
           /\ call'.requests = 1
           /\ Succeeded(call')
           /\ call'.fetched = call'.result
           /\ cache'[i].val.data = call'.result[1].value[1]
           /\ cache'[i].val.timestamp = now']_vars

\* a stale entry replaced by a refetch that was stored some time after it began
EntryCreationWitness ==
    /\ call.op = "get_weather"
    /\ call.evicted
    /\ Succeeded(call)
    /\ \E i \in EntriesFor(cache, call.city) :
         /\ cache[i].val.data = call.result[1].value[1]
         /\ cache[i].val.timestamp = now
         /\ cache[i].val.timestamp > call.result[1].value[1].timestamp

\* C28 (lazy eviction only): an entry leaves the mapping only in a get_weather
\* call for a city of its key that finds it aged CacheDuration or more, or in
\* clear_cache; a get_weather call for another key and get_cache_info leave it
\* as it is, record and timestamp, and get_cache_info counts every entry aged
\* CacheDuration or more as expired.
LazyEvictionOnly ==
    [][\A i \in 1..Len(cache) :
        /\ ~DictHas(cache', cache[i].key)
           => /\ call' # call
              /\ \/ call'.op = "clear_cache"
                 \/ /\ call'.op = "get_weather"
                    /\ SameCity(cache[i].key, call'.city)
                    /\ call'.evicted
                    /\ Age(cache, i, now) >= CacheDuration
        /\ (call' # call
              /\ \/ call'.op = "get_cache_info"
                 \/ call'.op = "get_weather" /\ ~SameCity(cache[i].key, call'.city))
           => /\ DictHas(cache', cache[i].key)
              /\ DictGet(cache', cache[i].key) = cache[i].val
        /\ (call' # call /\ call'.op = "get_cache_info")
           => call'.info[1].expired_entries
                = Cardinality({j \in 1..Len(cache) : Age(cache, j, now) >= CacheDuration})]_vars

\* a stale entry still in the mapping after a lookup of another key and counted
\* as expired
LazyEvictionOnlyWitness ==
    /\ call.op = "get_weather"
    /\ Succeeded(call)
    /\ Len(cache) = 2
    /\ ~SameCity(cache[1].key, call.city)
    /\ Age(cache, 1, now) >= CacheDuration
    /\ CacheInfo(cache, now).expired_entries = 1

\* the step in which caller w stores what it fetched and returns
StoreStep(w) == call[w].pc = "store" /\ call'[w].pc = "done"

\* C29: two callers that look the same key up at once are not coalesced: both
\* may miss and both fetch; each store leaves exactly one entry for the key,
\* holding the record of the caller that stored, and no other step of a call
\* adds or alters an entry, so the mapping ends with one entry holding the
\* record of the call that stored last.
NoFetchCoalescing ==
    [][/\ \A w \in Callers :
            StoreStep(w)
            => /\ Cardinality(EntriesFor(cache', CityKey(call[w].city))) = 1
               /\ DictGet(cache', CityKey(call[w].city)).data = call'[w].result[1].value[1]
               /\ call'[w].result[1].value = call[w].weather_data
       /\ (\A w \in Callers : ~StoreStep(w))
            => \A i \in 1..Len(cache') : \E j \in 1..Len(cache) : cache'[i] = cache[j]]_vars

\* both callers missed and fetched within one freshness window of an empty
\* mapping, both fetches succeeded with different records, and the mapping holds
\* one entry
NoFetchCoalescingWitness ==
    /\ now < CacheDuration
    /\ \A w \in Callers :
         /\ call[w].pc = "done"
         /\ Succeeded(call[w])
         /\ call[w].requests = 1
         /\ ~call[w].evicted
    /\ call[1].result # call[2].result
    /\ Len(cache) = 1
    /\ \E w \in Callers : cache[1].val.data = call[w].result[1].value[1]

\* C30: with two callers interleaved on a stale entry, every call ends by
\* returning a record or failing with an error of the taxonomy.
ConcurrentEviction ==
    \A w \in Callers :
        call[w].pc = "done"
        => \/ Succeeded(call[w])
           \/ Failed(call[w]) /\ Failure(call[w]).exc \in Taxonomy

\* the mapping has an entry for the city argument and it is stale at time t
HasStale(c, city, t) ==
    /\ EntriesFor(c, city) # {}
    /\ \A i \in EntriesFor(c, city) : Age(c, i, t) >= CacheDuration

\* C31 (failure after eviction): when get_weather(C) finds a stale entry for C's
\* key and the fetch that follows fails, the call fails without returning the stale
\* record, and the mapping after it is the mapping before it without that entry:
\* one entry fewer, none for C's key, the entries of the other keys as they were.
FailureAfterEviction ==
    [][(LookupStep /\ HasStale(cache, call'.city, now) /\ Failed(call'))
        => /\ call'.evicted
           /\ call'.requests = 1
           /\ call'.result[1].value = None
           /\ EntriesFor(cache', call'.city) = {}
           /\ Len(cache') = Len(cache) - 1
           /\ cache' = SelectSeq(cache, LAMBDA it : ~SameCity(it.key, call'.city))]_vars

\* a timeout on the refetch of a stale entry, next to a fresh entry of another
\* key: the stale entry is gone, the other one is still there
FailureAfterEvictionWitness ==
    /\ call.op = "get_weather"
    /\ call.outcome = Some(TimedOut)
    /\ call.evicted
    /\ Failed(call)
    /\ EntriesFor(cache, call.city) = {}
    /\ Len(cache) = 1
    /\ Age(cache, 1, now) < CacheDuration

\* C32 (timestamp order): the insertion timestamp of every entry of the mapping
\* is at or after the creation timestamp of the record it holds, and an entry
\* that stays in the mapping keeps its timestamp and its record: only a
\* get_weather call on its key that removed it as stale and stored a new one
\* puts another entry under the key, and a hit does not refresh it.
TimestampOrder ==
    [][/\ now' >= now
       /\ \A i \in 1..Len(cache') :
            cache'[i].val.timestamp >= cache'[i].val.data.timestamp
       /\ \A i \in 1..Len(cache) :
            DictHas(cache', cache[i].key)
            => \/ DictGet(cache', cache[i].key) = cache[i].val
               \/ /\ LookupStep
                  /\ SameCity(cache[i].key, call'.city)
                  /\ call'.evicted
                  /\ Age(cache, i, now) >= CacheDuration
       /\ (LookupStep /\ call'.path = "hit") => cache' = cache]_vars

\* a hit, some time after the store, on an entry that was stored some time after
\* its record was created: the entry still has the timestamp of the store
TimestampOrderWitness ==
    /\ call.op = "get_weather"
    /\ call.path = "hit"
    /\ \E i \in EntriesFor(cache, call.city) :
         /\ cache[i].val.timestamp > cache[i].val.data.timestamp
         /\ now > cache[i].val.timestamp
         /\ call.result[1].value[1] = cache[i].val.data

\* C33 (stats consistency): whatever state get_cache_info is called in, it
\* reports total = valid + expired, total equal to the number of entries of the
\* mapping, as keys the keys of the mapping, each once, and 0 <= valid <= total.
StatsConsistency ==
    [][(call' # call /\ call'.op = "get_cache_info")
        => LET info == call'.info[1]
           IN  /\ info.total_cities = info.valid_entries + info.expired_entries
               /\ info.total_cities = Len(cache)
               /\ Len(info.cached_cities) = Len(cache)
               /\ {info.cached_cities[i] : i \in 1..Len(info.cached_cities)}
                    = {cache[i].key : i \in 1..Len(cache)}
               /\ \A i, j \in 1..Len(info.cached_cities) :
                    info.cached_cities[i] = info.cached_cities[j] => i = j
               /\ 0 <= info.valid_entries
               /\ info.valid_entries <= info.total_cities
               /\ info.expired_entries >= 0]_vars

\* statistics over two entries of different keys, one fresh and one older than
\* the cache duration
StatsConsistencyWitness ==
    /\ call.op = "get_cache_info"
    /\ call.info[1].total_cities = 2
    /\ call.info[1].valid_entries = 1
    /\ call.info[1].expired_entries = 1
    /\ Len(call.info[1].cached_cities) = 2
    /\ call.info[1].cached_cities[1] # call.info[1].cached_cities[2]
    /\ \E i \in 1..Len(cache) : Age(cache, i, now) > CacheDuration

\* C34 (agent interface errors): the agent-facing get_weather(city) never raises;
\* when the lookup fails with CityNotFoundError it returns success = False with
\* error "city_not_found", for any other error of the taxonomy success = False
\* with error "api_error", and it returns error "unknown" only when an exception
\* outside the taxonomy was raised inside its try block.
AgentErrors ==
    call.op = "agent.get_weather"
    => /\ call.returned # None
       /\ call.path # "raised"
       /\ Failed(call)
          => /\ ~call.returned[1].success
             /\ Failure(call).exc = "CityNotFoundError"
                => call.returned[1].error = "city_not_found"
             /\ Failure(call).exc \in Taxonomy \ {"CityNotFoundError"}
                => call.returned[1].error = "api_error"
       /\ (~call.returned[1].success /\ call.returned[1].error = "unknown")
          => LET tried == AgentTry(ForAgent(call.result[1], call.city))
             IN  ~tried.ok /\ tried.err[1].exc \notin Taxonomy

\* the logged call got a 200 response whose body is a JSON object with every
\* required field in range, and that lacks the descriptor list or the sys block
LacksOptional(log) ==
    /\ log.outcome # None
    /\ log.outcome[1].kind = "response"
    /\ log.outcome[1].status = 200
    /\ LET body == log.outcome[1].body
       IN  /\ body.json /\ body.isdict
           /\ RequiredMissing(body) = {}
           /\ ~CarriesRejected(body)
           /\ body.weather = None \/ body.sys = None

\* C35 (absent condition list): a 200 body with no descriptor list parses into a
\* record with an empty description sequence, and one with no sys block into a
\* record with no country, instead of failing; the record is stored under the key
\* of the city like any other, and for a record without descriptions the agent
\* dict has "unknown" as conditions and the display text has "N/A".
AbsentConditionList ==
    [][(AdapterStep /\ LacksOptional(call'))
        => /\ Succeeded(call')
           /\ LET body == call'.outcome[1].body
                  record == call'.result[1].value[1]
                  out == call'.returned[1]
              IN  /\ body.weather = None => record.weather = <<>>
                  /\ body.sys = None => record.country = None
                  /\ record.city_name = body.name[1]
                  /\ DictHas(cache', CityKey(call'.city))
                  /\ DictGet(cache', CityKey(call'.city)) = CacheEntry(record, now')
                  /\ out.ok
                  /\ (call'.op = "get_weather_for_agent" /\ record.weather = <<>>)
                     => out.value[1].conditions = "unknown"
                  /\ call'.op = "get_weather_for_agent"
                     => out.value[1].location.country = record.country
                  /\ (call'.op = "display_weather" /\ record.weather = <<>>)
                     => out.value[1][8] = Str("N/A")]_vars

\* get_weather_for_agent fetched a body with no descriptor list: the record is in
\* the mapping and the dict says "unknown"
AbsentConditionListWitness ==
    /\ call.op = "get_weather_for_agent"
    /\ call.path = "miss"
    /\ call.outcome = Some(Response(200, BodyNoWeather, ""))
    /\ Succeeded(call)
    /\ call.result[1].value[1].weather = <<>>
    /\ call.returned[1].ok
    /\ call.returned[1].value[1].conditions = "unknown"
    /\ \E i \in EntriesFor(cache, call.city) : cache[i].val.data = call.result[1].value[1]

====
